---- MODULE Spec2Model ----
(***************************************************************************)
(* Radius Trend indicator (jesse/indicators/radius_trend.py).              *)
(*                                                                         *)
(* The model follows radius_trend_numba line by line and wraps it in the   *)
(* entry point radius_trend.  Arrays are functions over 0..size-1, so the  *)
(* indices are those of the source.                                        *)
(*                                                                         *)
(* Floating point numbers are modelled by exact fixed point arithmetic: a  *)
(* float is a record [nan, v] with v an integer count of 1/Scale units.    *)
(* Scale is chosen so that every product and quotient the program takes   *)
(* on the enumerated inputs is exact (ExactDiv has no value otherwise, and *)
(* TLC stops).  Rounding of IEEE doubles is therefore not modelled.        *)
(*                                                                         *)
(* The prices of the enumerated candles are finite numbers.  NaN arises    *)
(* only inside the program (the arrays made by np.full), so               *)
(* range_sma100[i] is defined for every i >= 99 and the branch of line 49  *)
(* is not taken by the main loop; loop_body keeps it all the same.         *)
(***************************************************************************)
EXTENDS Integers, Sequences, FiniteSets, TLC

\* ------------------------------------------------------------------ floats

\* 1/50000 resolves mean-of-100 * 0.2 * (k * step); 12 resolves means over n <= 4
Scale == 50000 * 12

NaN == [nan |-> TRUE, v |-> 0]

Num(x) == [nan |-> FALSE, v |-> x]

\* a price given in whole ticks
Price(p) == Num(p * Scale)

\* a parameter given in hundredths (15 is 0.15)
Hundredths(h) == Num(h * (Scale \div 100))

isnan(x) == x.nan

ExactDiv(a, q) == CHOOSE x \in {a \div q} : x * q = a

FAdd(x, y) == IF x.nan \/ y.nan THEN NaN ELSE Num(x.v + y.v)

FSub(x, y) == IF x.nan \/ y.nan THEN NaN ELSE Num(x.v - y.v)

FAbs(x) == IF x.nan THEN NaN ELSE Num(IF x.v < 0 THEN 0 - x.v ELSE x.v)

\* x * (p / q) for a literal p/q of the source (0.8, 0.2, 0.5)
FTimes(x, p, q) == IF x.nan THEN NaN ELSE Num(ExactDiv(x.v, q) * p)

\* x * y, y a multiple of 1/100
FMul(x, y) ==
    IF x.nan \/ y.nan THEN NaN
    ELSE Num(ExactDiv(x.v, 100) * ExactDiv(y.v, Scale \div 100))

\* comparisons with a NaN operand are false
FLt(x, y) == ~x.nan /\ ~y.nan /\ x.v < y.v

FGt(x, y) == ~x.nan /\ ~y.nan /\ x.v > y.v

\* ------------------------------------------------------------------ arrays

len(a) == Cardinality(DOMAIN a)

full(size, x) == [k \in 0 .. size - 1 |-> x]

RECURSIVE SumV(_, _, _)
\* sum of a[lo .. hi-1].v
SumV(a, lo, hi) ==
    IF lo >= hi THEN 0
    ELSE IF hi = lo + 1 THEN a[lo].v
    ELSE LET mid == (lo + hi) \div 2
         IN  SumV(a, lo, mid) + SumV(a, mid, hi)

AnyNaN(a, lo, hi) == \E k \in lo .. hi - 1 : a[k].nan

\* np.mean(a[lo:hi]) for 0 <= lo < hi <= len(a)
mean(a, lo, hi) ==
    IF AnyNaN(a, lo, hi) THEN NaN ELSE Num(ExactDiv(SumV(a, lo, hi), hi - lo))

\* ------------------------------------------------------------------ inputs

\* bars after the 102 warm-up bars (indices 102 ..)
MaxTail == 3

\* largest step period n
MaxN == 3

Bar(h, l, c) == [high |-> Price(h), low |-> Price(l), close |-> Price(c)]

\* the 102 warm-up bars repeat one bar; low = 10 seeds the band at 8
WarmBars == {Bar(12, 10, 11)}

\* close above the seed band, below it, and exactly on it; two ranges, so
\* that the 100-bar mean of the range moves
TailBars == {Bar(13, 10, 11), Bar(7, 5, 6), Bar(9, 7, 8)}

ShortSizes == {1, 2, 100, 101}

Tails == UNION {[1 .. k -> TailBars] : k \in 0 .. MaxTail}

History(w, tail) ==
    [k \in 0 .. 101 + Len(tail) |-> IF k <= 101 THEN w ELSE tail[k - 101]]

Histories ==
    {History(w, t) : w \in WarmBars, t \in Tails}
        \cup {[k \in 0 .. s - 1 |-> w] : w \in WarmBars, s \in ShortSizes}

\* (step, multi) in hundredths: the defaults 0.15, 2.0 and one other pair
Params == {<<15, 200>>, <<30, 100>>}

\* lengths <<len(high), len(low), len(close)>> of a direct call of
\* radius_trend_numba; no array of length 1 (broadcast), no close longer than
\* high/low beyond bar 98 (no element of high or low is then read)
DirectShapes ==
    {<<3, 3, 3>>, <<3, 3, 2>>, <<2, 2, 3>>, <<3, 2, 2>>, <<2, 3, 3>>,
     <<104, 104, 103>>, <<103, 103, 103>>}

\* ------------------------------------------------------------------ state

VARIABLES
    mode,         \* "wrapper": radius_trend is called; "direct": radius_trend_numba
    candles,      \* the full candle history handed to radius_trend
    sequential,   \* radius_trend's sequential flag
    step, multi, n,
    high, low, close,
    pc,
    size,
    i,            \* next index of the main loop
    trend_arr, band_arr, main_band, outer_band,
    range_sma100,
    band_upper, band_lower,
    multi1, multi2,
    band_pre,     \* band_arr[i] after line 66, before the step adjustment
    stepped,      \* indices at which the branch of line 69 was taken
    result,
    error

vars ==
    <<mode, candles, sequential, step, multi, n, high, low, close, pc, size, i,
      trend_arr, band_arr, main_band, outer_band, range_sma100,
      band_upper, band_lower, multi1, multi2, band_pre, stepped, result, error>>

inputs == <<mode, candles, sequential, step, multi, n>>

\* ------------------------------------------------------------------ radius_trend_numba

\* line 16
zeros_bool(sz) == full(sz, FALSE)

\* line 22
hl_range_of(h, l) == [k \in DOMAIN h |-> FAbs(FSub(h[k], l[k]))]

\* the window of line 25 moved one bar ahead where a later bar exists
range_sma100_at_ahead(hl_range, k) ==
    LET e == IF k + 1 < len(hl_range) THEN k + 1 ELSE k
    IN  mean(hl_range, e - 99, e + 1)

\* line 25
range_sma100_at(hl_range, k) == mean(hl_range, k - 99, k + 1)

\* lines 23-25
range_sma100_of(hl_range, sz) ==
    [k \in 0 .. sz - 1 |-> IF k >= 99 THEN range_sma100_at(hl_range, k) ELSE NaN]

\* lines 27-31 fill the local array hl2_sma20, which no later line reads: it is
\* not part of the state
\* lines 38-40: the seed at bar 101
seed_trend(sz) ==
    IF sz > 101 THEN [zeros_bool(sz) EXCEPT ![101] = TRUE] ELSE zeros_bool(sz)

\* band_arr of line 17 made with np.zeros
seed_band_zeros(l, sz) ==
    IF sz > 101 THEN [full(sz, Num(0)) EXCEPT ![101] = FTimes(l[101], 4, 5)]
    ELSE full(sz, Num(0))

seed_band(l, sz) ==
    IF sz > 101 THEN [full(sz, NaN) EXCEPT ![101] = FTimes(l[101], 4, 5)]
    ELSE full(sz, NaN)

\* line 57 with <= for <
trend_update_le(prev, c, b) ==
    LET t1 == IF FLt(c, b) \/ (~c.nan /\ c = b) THEN FALSE ELSE prev
    IN  IF FGt(c, b) THEN TRUE ELSE t1

\* lines 57-60
trend_update(prev, c, b) ==
    LET t1 == IF FLt(c, b) THEN FALSE ELSE prev
    IN  IF FGt(c, b) THEN TRUE ELSE t1

\* lines 63-66
band_on_change(prev, t, b, h, l, distance) ==
    LET b1 == IF prev = FALSE /\ t = TRUE THEN FSub(l, distance) ELSE b
    IN  IF prev = TRUE /\ t = FALSE THEN FAdd(h, distance) ELSE b1

\* line 69 with the period off by one
step_due_off(k, period) == k % (period + 1) = 0

\* line 69
step_due(k, period) == k % period = 0

\* lines 70-77 with the signs of lines 73 and 77 exchanged
step_angle_away(t, b, m1, m2, distance1, stp) ==
    IF t
    THEN LET m == FAdd(m2, stp)
         IN  [multi1 |-> Num(0), multi2 |-> m, band |-> FSub(b, FMul(distance1, m))]
    ELSE LET m == FAdd(m1, stp)
         IN  [multi1 |-> m, multi2 |-> Num(0), band |-> FAdd(b, FMul(distance1, m))]

\* lines 70-77 without the resets of lines 71 and 76
step_angle_noreset(t, b, m1, m2, distance1, stp) ==
    IF t
    THEN LET m == FAdd(m2, stp)
         IN  [multi1 |-> m1, multi2 |-> m, band |-> FAdd(b, FMul(distance1, m))]
    ELSE LET m == FAdd(m1, stp)
         IN  [multi1 |-> m, multi2 |-> m2, band |-> FSub(b, FMul(distance1, m))]

\* lines 70-77
step_angle(t, b, m1, m2, distance1, stp) ==
    IF t
    THEN LET m == FAdd(m2, stp)
         IN  [multi1 |-> Num(0), multi2 |-> m, band |-> FAdd(b, FMul(distance1, m))]
    ELSE LET m == FAdd(m1, stp)
         IN  [multi1 |-> m, multi2 |-> Num(0), band |-> FSub(b, FMul(distance1, m))]

\* lines 44-77: one iteration of the main loop on the loop state st
loop_body(st, k, h, l, c, sma, stp, mlt, period) ==
    LET prev == st.trend_arr[k - 1]
        b0   == st.band_arr[k - 1]
    IN  IF isnan(sma[k])
        THEN [st EXCEPT !.trend_arr[k] = prev, !.band_arr[k] = b0, !.band_pre = b0]
        ELSE LET distance  == FMul(sma[k], mlt)
                 distance1 == FTimes(sma[k], 1, 5)
                 t  == trend_update(prev, c[k], b0)
                 b  == band_on_change(prev, t, b0, h[k], l[k], distance)
                 a  == step_angle(t, b, st.multi1, st.multi2, distance1, stp)
             IN  IF step_due(k, period)
                 THEN [trend_arr |-> [st.trend_arr EXCEPT ![k] = t],
                       band_arr  |-> [st.band_arr EXCEPT ![k] = a.band],
                       multi1 |-> a.multi1, multi2 |-> a.multi2,
                       band_pre |-> b, stepped |-> st.stepped \cup {k}]
                 ELSE [st EXCEPT !.trend_arr[k] = t, !.band_arr[k] = b,
                                 !.band_pre = b]

\* lines 81-82 averaging the defined values of the window (np.nanmean)
main_band_at_nanmean(band, k, period) ==
    LET W == {j \in k - period + 1 .. k : ~band[j].nan}
        defined == [j \in k - period + 1 .. k |->
                       IF band[j].nan THEN Num(0) ELSE band[j]]
    IN  IF W = {} THEN NaN
        ELSE Num(ExactDiv(SumV(defined, k - period + 1, k + 1), Cardinality(W)))

\* lines 81-82
main_band_at(band, k, period) ==
    IF ~AnyNaN(band, k - period + 1, k + 1)
    THEN mean(band, k - period + 1, k + 1) ELSE NaN

\* lines 80-82
main_band_of(band, period, sz) ==
    [k \in 0 .. sz - 1 |->
        IF k >= period - 1 THEN main_band_at(band, k, period) ELSE NaN]

\* lines 89-98: sign = 1 gives band_upper[k], sign = -1 band_lower[k]
envelope_at(band, sma, k, period, sign) ==
    IF isnan(sma[k]) \/ isnan(band[k]) THEN NaN
    ELSE LET half == FTimes(sma[k], 1, 2)
             upper_values == [j \in k - period + 1 .. k |-> FAdd(band[j], half)]
             lower_values == [j \in k - period + 1 .. k |-> FSub(band[j], half)]
         IN  IF ~AnyNaN(upper_values, k - period + 1, k + 1)
                /\ ~AnyNaN(lower_values, k - period + 1, k + 1)
             THEN IF sign = 1 THEN mean(upper_values, k - period + 1, k + 1)
                  ELSE mean(lower_values, k - period + 1, k + 1)
             ELSE NaN

\* lines 85-98
envelope_of(band, sma, period, sz, sign) ==
    [k \in 0 .. sz - 1 |->
        IF k >= period - 1 THEN envelope_at(band, sma, k, period, sign) ELSE NaN]

\* line 103 with the two bands exchanged
outer_band_at_swapped(upper, lower, trend, k) ==
    IF ~isnan(upper[k]) /\ ~isnan(lower[k])
    THEN IF trend[k] THEN lower[k] ELSE upper[k]
    ELSE NaN

\* lines 102-103
outer_band_at(upper, lower, trend, k) ==
    IF ~isnan(upper[k]) /\ ~isnan(lower[k])
    THEN IF trend[k] THEN upper[k] ELSE lower[k]
    ELSE NaN

\* lines 101-103
outer_band_of(upper, lower, trend, sz) ==
    [k \in 0 .. sz - 1 |-> outer_band_at(upper, lower, trend, k)]

\* the state of the main loop before its first iteration (lines 16-17, 34-40)
loop_init(l, sz) ==
    [trend_arr |-> seed_trend(sz), band_arr |-> seed_band(l, sz),
     multi1 |-> Num(0), multi2 |-> Num(0), band_pre |-> NaN, stepped |-> {}]

RECURSIVE main_loop(_, _, _, _, _, _, _, _, _, _)
\* lines 43-77: for k in range(k, sz)
main_loop(st, k, sz, h, l, c, sma, stp, mlt, period) ==
    IF k >= sz THEN st
    ELSE main_loop(loop_body(st, k, h, l, c, sma, stp, mlt, period),
                   k + 1, sz, h, l, c, sma, stp, mlt, period)

\* lines 9-105 as a function of its arguments (len(h) = len(l) >= len(c))
radius_trend_numba(h, l, c, stp, mlt, period) ==
    LET sz    == len(c)
        sma   == range_sma100_of(hl_range_of(h, l), sz)
        st    == main_loop(loop_init(l, sz), 102, sz, h, l, c, sma, stp, mlt, period)
        upper == envelope_of(st.band_arr, sma, period, sz, 1)
        lower == envelope_of(st.band_arr, sma, period, sz, -1)
    IN  [trend      |-> st.trend_arr,
         main_band  |-> main_band_of(st.band_arr, period, sz),
         outer_band |-> outer_band_of(upper, lower, st.trend_arr, sz)]

\* ------------------------------------------------------------------ radius_trend

\* the last keep rows of the candle array
last_rows(cdl, keep) == [k \in 0 .. keep - 1 |-> cdl[len(cdl) - keep + k]]

\* jesse.helpers.slice_candles: everything when sequential, else a trailing
\* part that keeps the look-back of 102 bars when the history has it
slice_candles(cdl, seq) ==
    IF seq \/ len(cdl) < 102 THEN {cdl}
    ELSE {last_rows(cdl, keep) : keep \in 102 .. len(cdl)}

\* lines 127-129
column(cdl, name) == [k \in DOMAIN cdl |-> cdl[k][name]]

\* lines 135-142
RadiusTrend(seq, trend, main, outer) ==
    IF seq THEN [trend |-> trend, main_band |-> main, outer_band |-> outer]
    ELSE [trend      |-> trend[len(trend) - 1],
          main_band  |-> main[len(main) - 1],
          outer_band |-> outer[len(outer) - 1]]

\* ------------------------------------------------------------------ behaviour

NoArrays ==
    /\ size = 0 /\ i = 0
    /\ trend_arr = <<>> /\ band_arr = <<>> /\ main_band = <<>>
    /\ outer_band = <<>> /\ range_sma100 = <<>>
    /\ band_upper = <<>> /\ band_lower = <<>>
    /\ multi1 = Num(0) /\ multi2 = Num(0) /\ band_pre = NaN /\ stepped = {}
    /\ result = <<>> /\ error = ""

InitWrapper ==
    /\ mode = "wrapper"
    /\ candles \in Histories
    /\ sequential \in BOOLEAN
    /\ high = <<>> /\ low = <<>> /\ close = <<>>
    /\ pc = "call"

InitDirect ==
    /\ mode = "direct"
    /\ candles = <<>>
    /\ sequential = TRUE
    /\ \E s \in DirectShapes, w \in WarmBars :
          /\ high  = full(s[1], w.high)
          /\ low   = full(s[2], w.low)
          /\ close = full(s[3], w.close)
    /\ pc = "setup"

Init ==
    /\ \E p \in Params : step = Hundredths(p[1]) /\ multi = Hundredths(p[2])
    /\ n \in 1 .. MaxN
    /\ (InitWrapper \/ InitDirect)
    /\ NoArrays

\* radius_trend lines 125-133: slice, take the columns, call the engine
SliceCandles ==
    /\ pc = "call"
    /\ \E cdl \in slice_candles(candles, sequential) :
          /\ high'  = column(cdl, "high")
          /\ low'   = column(cdl, "low")
          /\ close' = column(cdl, "close")
    /\ pc' = "setup"
    /\ UNCHANGED <<inputs, size, i, trend_arr, band_arr, main_band, outer_band,
                   range_sma100, band_upper, band_lower, multi1,
                   multi2, band_pre, stepped, result, error>>

\* line 22 on arrays of different lengths (neither of length 1): the
\* elementwise subtraction cannot broadcast and raises
BroadcastError ==
    /\ pc = "setup"
    /\ len(high) # len(low)
    /\ pc' = "error"
    /\ error' = "ValueError"
    /\ UNCHANGED <<inputs, high, low, close, size, i, trend_arr, band_arr,
                   main_band, outer_band, range_sma100, band_upper,
                   band_lower, multi1, multi2, band_pre, stepped, result>>

\* lines 13-41
Setup ==
    /\ pc = "setup"
    /\ len(high) = len(low)
    /\ LET sz == len(close)
           st == loop_init(low, sz)
       IN  /\ size' = sz
           /\ trend_arr' = st.trend_arr
           /\ band_arr' = st.band_arr
           /\ main_band' = full(sz, NaN)
           /\ outer_band' = full(sz, NaN)
           /\ range_sma100' = range_sma100_of(hl_range_of(high, low), sz)
           /\ multi1' = st.multi1
           /\ multi2' = st.multi2
           /\ i' = 102
           /\ pc' = IF 102 < sz THEN "loop" ELSE "smooth"
    /\ UNCHANGED <<inputs, high, low, close, band_upper, band_lower, band_pre,
                   stepped, result, error>>

\* lines 43-77: one iteration
MainLoop ==
    /\ pc = "loop"
    /\ i < size
    /\ LET st == loop_body([trend_arr |-> trend_arr, band_arr |-> band_arr,
                            multi1 |-> multi1, multi2 |-> multi2,
                            band_pre |-> band_pre, stepped |-> stepped],
                           i, high, low, close, range_sma100, step, multi, n)
       IN  /\ trend_arr' = st.trend_arr
           /\ band_arr' = st.band_arr
           /\ multi1' = st.multi1
           /\ multi2' = st.multi2
           /\ band_pre' = st.band_pre
           /\ stepped' = st.stepped
    /\ i' = i + 1
    /\ pc' = IF i + 1 < size THEN "loop" ELSE "smooth"
    /\ UNCHANGED <<inputs, high, low, close, size, main_band, outer_band,
                   range_sma100, band_upper, band_lower, result, error>>

\* lines 80-82
SmoothBand ==
    /\ pc = "smooth"
    /\ main_band' = main_band_of(band_arr, n, size)
    /\ pc' = "envelope"
    /\ UNCHANGED <<inputs, high, low, close, size, i, trend_arr, band_arr,
                   outer_band, range_sma100, band_upper, band_lower,
                   multi1, multi2, band_pre, stepped, result, error>>

\* lines 85-98
UpperLower ==
    /\ pc = "envelope"
    /\ band_upper' = envelope_of(band_arr, range_sma100, n, size, 1)
    /\ band_lower' = envelope_of(band_arr, range_sma100, n, size, -1)
    /\ pc' = "outer"
    /\ UNCHANGED <<inputs, high, low, close, size, i, trend_arr, band_arr,
                   main_band, outer_band, range_sma100, multi1,
                   multi2, band_pre, stepped, result, error>>

\* lines 101-105; a direct call ends here with the three arrays
OuterBand ==
    /\ pc = "outer"
    /\ outer_band' = outer_band_of(band_upper, band_lower, trend_arr, size)
    /\ IF mode = "direct"
       THEN /\ pc' = "done"
            /\ result' = RadiusTrend(TRUE, trend_arr, main_band, outer_band')
       ELSE /\ pc' = "return"
            /\ result' = result
    /\ UNCHANGED <<inputs, high, low, close, size, i, trend_arr, band_arr,
                   main_band, range_sma100, band_upper, band_lower,
                   multi1, multi2, band_pre, stepped, error>>

\* radius_trend lines 135-142
Return ==
    /\ pc = "return"
    /\ result' = RadiusTrend(sequential, trend_arr, main_band, outer_band)
    /\ pc' = "done"
    /\ UNCHANGED <<inputs, high, low, close, size, i, trend_arr, band_arr,
                   main_band, outer_band, range_sma100, band_upper,
                   band_lower, multi1, multi2, band_pre, stepped, error>>

Next ==
    \/ SliceCandles
    \/ BroadcastError
    \/ Setup
    \/ MainLoop
    \/ SmoothBand
    \/ UpperLower
    \/ OuterBand
    \/ Return

Spec == Init /\ [][Next]_vars

\* ------------------------------------------------------------------ properties

\* the engine was given arrays of one length (always so under radius_trend)
ValidInput == len(high) = len(low) /\ len(low) = len(close)

InLoopOrAfter == pc \in {"loop", "smooth", "envelope", "outer", "return", "done"}

Smoothed == pc \in {"envelope", "outer", "return", "done"}

Returned == pc \in {"return", "done"}

\* a bar of the main loop has been processed; the last one is i - 1
BarDone == InLoopOrAfter /\ i > 102

Max(S) == CHOOSE x \in S : \A y \in S : y <= x

Dist(x, y) == IF x.v >= y.v THEN x.v - y.v ELSE y.v - x.v

\* the step bars of the main loop before bar k
StepBarsBefore(k) == {j \in 102 .. k - 1 : j % n = 0}

\* the accumulator the step adjustment of bar k used
ActiveAcc(k) == IF trend_arr[k] THEN multi2 ELSE multi1

\* the full history's columns through the engine
OnFullHistory ==
    radius_trend_numba(column(candles, "high"), column(candles, "low"),
                       column(candles, "close"), step, multi, n)

C2_InvalidInputFails ==
    (mode = "direct" /\ ~ValidInput) => pc # "done"

\* C3: with size <= 101 the computation goes on to its end without an error,
\* trend is false at every index, main_band and outer_band are undefined at
\* every index, and the three outputs are as long as the input.
C3_ShortInput ==
    (ValidInput /\ len(close) <= 101) =>
        /\ pc # "error"
        /\ (pc = "done" \/ ENABLED Next)
        /\ Returned =>
              /\ DOMAIN trend_arr = DOMAIN close
              /\ DOMAIN main_band = DOMAIN close
              /\ DOMAIN outer_band = DOMAIN close
              /\ \A k \in DOMAIN close :
                    trend_arr[k] = FALSE /\ main_band[k].nan /\ outer_band[k].nan
        /\ (pc = "done" /\ mode = "wrapper" /\ ~sequential) =>
              result.trend = FALSE /\ result.main_band.nan /\ result.outer_band.nan

C3_Witness ==
    pc = "done" /\ mode = "wrapper" /\ sequential /\ size = 101 /\ n = 3

\* C4: main_band[k] is defined exactly when k >= n-1 and band[k-n+1 .. k] are
\* all defined, it is then their arithmetic mean, and an undefined band[k]
\* leaves main_band undefined at k .. k+n-1.
C4_MainBandDefined ==
    Smoothed =>
        \A k \in 0 .. size - 1 :
            /\ ~main_band[k].nan <=>
                  (k >= n - 1 /\ \A j \in k - n + 1 .. k : ~band_arr[j].nan)
            /\ ~main_band[k].nan =>
                  main_band[k].v * n = SumV(band_arr, k - n + 1, k + 1)
            /\ band_arr[k].nan =>
                  \A j \in k .. k + n - 1 : j < size => main_band[j].nan

C4_Witness ==
    /\ pc = "done" /\ n = 3 /\ size > 104
    /\ band_arr[100].nan /\ ~band_arr[101].nan
    /\ main_band[102].nan /\ ~main_band[103].nan
    /\ main_band[103] # band_arr[103]

\* C5: where outer_band is defined, band_upper and band_lower are defined and
\* outer_band is band_upper in an uptrend, band_lower in a downtrend; where one
\* of them is undefined so is outer_band; band_upper and band_lower are the
\* means of band[k-n+1 .. k] shifted by +/- rangeSMA100[k] * 0.5.
C5_OuterBandSelection ==
    Returned =>
        \A k \in 0 .. size - 1 :
            /\ ~outer_band[k].nan =>
                  /\ ~band_upper[k].nan /\ ~band_lower[k].nan
                  /\ outer_band[k] = IF trend_arr[k] THEN band_upper[k]
                                     ELSE band_lower[k]
            /\ (band_upper[k].nan \/ band_lower[k].nan) => outer_band[k].nan
            /\ ~band_upper[k].nan =>
                  2 * n * band_upper[k].v =
                      2 * SumV(band_arr, k - n + 1, k + 1) + n * range_sma100[k].v
            /\ ~band_lower[k].nan =>
                  2 * n * band_lower[k].v =
                      2 * SumV(band_arr, k - n + 1, k + 1) - n * range_sma100[k].v

C5_Witness ==
    /\ pc = "done" /\ n > 1
    /\ \E k \in 0 .. size - 1 : ~outer_band[k].nan /\ trend_arr[k]
    /\ \E k \in 0 .. size - 1 : ~outer_band[k].nan /\ ~trend_arr[k]
    /\ \E k \in 101 .. size - 1 : outer_band[k].nan

\* C6: with n = 1 the step adjustment is applied at every bar of the main loop
\* and main_band[k] is band[k], defined exactly where band[k] is.
C6_PeriodOne ==
    (n = 1) =>
        /\ InLoopOrAfter => stepped = 102 .. i - 1
        /\ Smoothed => \A k \in 0 .. size - 1 : main_band[k] = band_arr[k]

C6_Witness ==
    /\ pc = "done" /\ n = 1 /\ size > 104
    /\ stepped = 102 .. size - 1
    /\ ~main_band[size - 1].nan /\ main_band[100].nan

\* C7 as stated: the step adjustment leaves band[k] farther from close[k] than
\* the band was just before the adjustment.
C7_AwayFromPrice ==
    (BarDone /\ (i - 1) % n = 0 /\ step.v > 0 /\ range_sma100[i - 1].v > 0) =>
        Dist(close[i - 1], band_arr[i - 1]) > Dist(close[i - 1], band_pre)

\* C7 amended: the step adjustment raises the band in an uptrend and lowers it
\* in a downtrend, by rangeSMA100[k] * 0.2 times the active accumulator.
C7_StepDirection ==
    (BarDone /\ (i - 1) % n = 0 /\ step.v > 0 /\ range_sma100[i - 1].v > 0) =>
        LET k == i - 1
            shift == FMul(FTimes(range_sma100[k], 1, 5), ActiveAcc(k))
        IN  /\ shift.v > 0
            /\ trend_arr[k] => band_arr[k] = FAdd(band_pre, shift)
            /\ ~trend_arr[k] => band_arr[k] = FSub(band_pre, shift)

C7_Witness ==
    /\ BarDone /\ i - 1 > 102 /\ (i - 1) % n = 0
    /\ ~trend_arr[i - 1] /\ trend_arr[i - 2]
    /\ band_arr[i - 1].v < band_pre.v

\* no step bar lies between the start of the trend run of bar k and bar k
FirstStepOfRun(k) ==
    \A j \in StepBarsBefore(k) : \E m \in j .. k : trend_arr[m] # trend_arr[k]

\* C8 as stated: after every bar of the main loop the accumulator of the
\* opposite trend is 0, and the first adjustment of a trend run uses step.
C8_ResetWheneverOpposite ==
    BarDone =>
        LET k == i - 1
        IN  /\ trend_arr[k] => multi1 = Num(0)
            /\ ~trend_arr[k] => multi2 = Num(0)
            /\ (k % n = 0 /\ FirstStepOfRun(k)) => ActiveAcc(k) = step

\* C8 amended: after a step bar (k mod n = 0) the accumulator of the opposite
\* trend is 0, and the adjustment uses exactly step when no step bar came
\* before or the trend at the previous step bar was the opposite one.
C8_ResetAtStepBars ==
    (BarDone /\ (i - 1) % n = 0) =>
        LET k == i - 1
            P == StepBarsBefore(k)
        IN  /\ trend_arr[k] => multi1 = Num(0)
            /\ ~trend_arr[k] => multi2 = Num(0)
            /\ (P = {} \/ trend_arr[Max(P)] # trend_arr[k]) => ActiveAcc(k) = step

C8_Witness ==
    /\ BarDone /\ (i - 1) % n = 0 /\ n > 1
    /\ StepBarsBefore(i - 1) # {}
    /\ trend_arr[Max(StepBarsBefore(i - 1))] # trend_arr[i - 1]
    /\ ActiveAcc(i - 1) = step

\* C9: from the seed trend[101] = true, band[101] = low[101] * 0.8, every bar k
\* of the main loop has trend[k] false if close[k] < band[k-1], true if
\* close[k] > band[k-1], trend[k-1] if they are equal; before the step
\* adjustment band[k] is low[k] - rangeSMA100[k] * multi on false -> true,
\* high[k] + rangeSMA100[k] * multi on true -> false, band[k-1] otherwise; a
\* bar with k mod n # 0 and no trend change carries trend and band forward.
C9_TransitionRule ==
    (InLoopOrAfter /\ size > 101) =>
        /\ trend_arr[101] = TRUE
        /\ ~band_arr[101].nan /\ band_arr[101].v * 5 = low[101].v * 4
        /\ \A k \in 102 .. i - 1 :
              /\ close[k].v < band_arr[k - 1].v => trend_arr[k] = FALSE
              /\ close[k].v > band_arr[k - 1].v => trend_arr[k] = TRUE
              /\ close[k].v = band_arr[k - 1].v => trend_arr[k] = trend_arr[k - 1]
              /\ (k % n # 0 /\ trend_arr[k] = trend_arr[k - 1]) =>
                    band_arr[k] = band_arr[k - 1]
        /\ i > 102 =>
              LET k == i - 1
                  d == FMul(range_sma100[k], multi)
              IN  band_pre =
                      IF ~trend_arr[k - 1] /\ trend_arr[k] THEN FSub(low[k], d)
                      ELSE IF trend_arr[k - 1] /\ ~trend_arr[k] THEN FAdd(high[k], d)
                      ELSE band_arr[k - 1]

C9_Witness ==
    /\ BarDone /\ i - 1 > 103
    /\ close[102] = band_arr[101] /\ trend_arr[102]
    /\ ~trend_arr[i - 2] /\ trend_arr[i - 1]
    /\ band_pre = FSub(low[i - 1], FMul(range_sma100[i - 1], multi))

prefix(a, m) == [k \in 0 .. m - 1 |-> a[k]]

\* C10: the outputs on a prefix of the series are the outputs on the whole
\* series at the indices of the prefix: appending bars changes no earlier bar.
C10_PrefixStable ==
    (pc = "done" /\ mode = "wrapper" /\ sequential) =>
        \A m \in 1 .. size - 1 :
            LET r == radius_trend_numba(prefix(high, m), prefix(low, m),
                                        prefix(close, m), step, multi, n)
            IN  \A k \in 0 .. m - 1 :
                    /\ r.trend[k] = result.trend[k]
                    /\ r.main_band[k] = result.main_band[k]
                    /\ r.outer_band[k] = result.outer_band[k]

C10_Witness ==
    /\ pc = "done" /\ mode = "wrapper" /\ sequential /\ size > 104
    /\ ~result.trend[103] /\ result.trend[104]
    /\ ~result.outer_band[103].nan
    /\ range_sma100[103] # range_sma100[104]

====
